---- MODULE Spec2Model ----
(***************************************************************************)
(* A model of the retrieval-and-routing service of api/rag.py and of its   *)
(* command line wrapper tools/rag_cli.py.                                  *)
(*                                                                         *)
(* Strings are sequences of one-character strings, so that lower() and     *)
(* the "in" substring test are computed.  Floats are exact rationals       *)
(* <<numerator, denominator>> with a positive denominator.                 *)
(***************************************************************************)
EXTENDS Integers, Sequences, FiniteSets, TLC

VARIABLES
    KEY_OVERRIDE,           \* rag.py:36, the module global
    GOOGLE_API_KEY,         \* os.getenv("GOOGLE_API_KEY") of the process
    ENABLE_MEMORY_SUMMARY,  \* rag.py:110
    fs,                     \* data/faiss/<name>: "missing", "corrupt" or "ok"
    index,                  \* the ranked distances each collection holds for the query
    req,                    \* one record per call in progress (thread of control)
    served                  \* how many boundary calls the process has begun

vars == <<KEY_OVERRIDE, GOOGLE_API_KEY, ENABLE_MEMORY_SUMMARY, fs, index, req, served>>

None == "None"

(***************************** bounds **************************************)
NumThreads == 2      \* handler invocations that may interleave
MaxRequests == 2     \* boundary calls one process serves in sequence
MaxMsgs == 6         \* longest message history of a request body
MaxHits == 3         \* most neighbours a collection holds for a query
MaxK == 2            \* largest k of a direct retrieve call
MaxScores == 2       \* longest score list of a direct decide_mode call

Threads == 1..NumThreads

(***************************** strings *************************************)
UpperChars == <<"A", "B", "C", "D", "E", "F", "G", "H", "I", "J", "K", "L", "M", "N", "O", "P", "Q", "R", "S", "T", "U", "V", "W", "X", "Y", "Z">>
LowerChars == <<"a", "b", "c", "d", "e", "f", "g", "h", "i", "j", "k", "l", "m", "n", "o", "p", "q", "r", "s", "t", "u", "v", "w", "x", "y", "z">>
DigitChars == <<"0", "1", "2", "3", "4", "5", "6", "7", "8", "9">>

Range(s) == {s[i] : i \in 1..Len(s)}

lower_char(c) ==
    IF c \in Range(UpperChars)
    THEN LowerChars[CHOOSE i \in 1..Len(UpperChars) : UpperChars[i] = c]
    ELSE c

\* str.lower()
lower(s) == [i \in 1..Len(s) |-> lower_char(s[i])]

\* k in s
Contains(s, k) ==
    \E i \in 0..(Len(s) - Len(k)) : SubSeq(s, i + 1, i + Len(k)) = k

KW_nec == <<" ", "n", "e", "c", " ">>
KW_national_electrical_code == <<"n", "a", "t", "i", "o", "n", "a", "l", " ", "e", "l", "e", "c", "t", "r", "i", "c", "a", "l", " ", "c", "o", "d", "e">>
KW_nfpa_70 == <<"n", "f", "p", "a", " ", "7", "0">>
KW_article == <<"a", "r", "t", "i", "c", "l", "e", " ">>
KW_wattmonk == <<"w", "a", "t", "t", "m", "o", "n", "k">>
KW_policy == <<"p", "o", "l", "i", "c", "y">>
KW_sla == <<"s", "l", "a">>
KW_pricing == <<"p", "r", "i", "c", "i", "n", "g">>
KW_services == <<"s", "e", "r", "v", "i", "c", "e", "s">>
KW_turnaround == <<"t", "u", "r", "n", "a", "r", "o", "u", "n", "d">>

NecKeywords == {KW_nec, KW_national_electrical_code, KW_nfpa_70, KW_article}
WattmonkKeywords == {KW_wattmonk, KW_policy, KW_sla, KW_pricing, KW_services, KW_turnaround}

(* A query value: a string, None, or a truthy value that is not a string  *)
(* (a JSON number, list or object).                                        *)
StrQ(chars) == [kind |-> "str", chars |-> chars]
NoneQ == [kind |-> "none", chars |-> <<>>]
NonStrQ == [kind |-> "nonstr", chars |-> <<>>]

AttributeError == "AttributeError"

classify_intent(q) ==
    IF q.kind = "nonstr"
    THEN AttributeError                       \* (q or "").lower() on a non-string
    ELSE LET s == lower(q.chars)              \* None or "" gives ""
         IN IF \E k \in NecKeywords : Contains(s, k) THEN "nec"
            ELSE IF \E k \in WattmonkKeywords : Contains(s, k) THEN "wattmonk"
            ELSE "general"

(***************************** rationals ***********************************)
Lt(a, b) == a[1] * b[2] < b[1] * a[2]
Gt(a, b) == Lt(b, a)
Le(a, b) == ~Lt(b, a)
Eq(a, b) == a[1] * b[2] = b[1] * a[2]

Zero == <<0, 1>>
TopicalThreshold == <<1, 4>>       \* 0.25
GeneralThreshold == <<7, 10>>      \* 0.7

\* max(scores): the first of the largest elements
RECURSIVE MaxOf(_)
MaxOf(s) ==
    IF Len(s) = 1 THEN s[1]
    ELSE LET m == MaxOf(SubSeq(s, 1, Len(s) - 1))
         IN IF Gt(s[Len(s)], m) THEN s[Len(s)] ELSE m

decide_mode_ge(scores, intent) ==
    LET max_s == IF scores # <<>> THEN MaxOf(scores) ELSE Zero
    IN IF intent \in {"nec", "wattmonk"} /\ ~Lt(max_s, TopicalThreshold) THEN "rag"
       ELSE IF ~Lt(max_s, GeneralThreshold) THEN "rag"
       ELSE "general"

decide_mode(scores, intent) ==
    LET max_s == IF scores # <<>> THEN MaxOf(scores) ELSE Zero
    IN IF intent \in {"nec", "wattmonk"} /\ Gt(max_s, TopicalThreshold) THEN "rag"
       ELSE IF Gt(max_s, GeneralThreshold) THEN "rag"
       ELSE "general"

(***************************** credentials *********************************)
Keys == {"k1", "k2"}

\* rag.py:38  KEY_OVERRIDE or os.getenv("GOOGLE_API_KEY")
get_key == IF KEY_OVERRIDE # None THEN KEY_OVERRIDE ELSE GOOGLE_API_KEY

(***************************** collections *********************************)
Collections == {"nec", "wattmonk"}
FsStatus == {"missing", "corrupt", "ok"}

\* Distances of the index (smaller is closer): 0.1, and 3 (whose score is 0.25).
Dists == {<<1, 10>>, <<3, 1>>}

NoVs == [name |-> None, embeddings |-> None]

(* load_vs(name), given the key get_key() returned: None when the path is  *)
(* missing or FAISS.load_local raises; otherwise the store, holding the    *)
(* embeddings object (None without a key).                                 *)
load_vs(name, key) ==
    IF fs[name] = "missing" THEN NoVs
    ELSE IF fs[name] = "corrupt" THEN NoVs
    ELSE [name |-> name, embeddings |-> key]

\* a faulty variant: every hint searches both collections
Selected_both(hint) == <<"nec", "wattmonk">>

\* the collections retrieve loads for a hint, in the order it loads them
Selected(hint) ==
    IF hint = "nec" THEN <<"nec">>
    ELSE IF hint = "wattmonk" THEN <<"wattmonk">>
    ELSE <<"nec", "wattmonk">>

Min(a, b) == IF a < b THEN a ELSE b

\* vs.similarity_search_with_score(query, k=k2): the k2 nearest, nearest first
similarity_search_with_score(name, k2) ==
    [i \in 1..Min(k2, Len(index[name])) |->
        [doc |-> [coll |-> name, rank |-> i], dist |-> index[name][i]]]

\* a faulty variant: a search that raises ends the loop (break for continue)
RECURSIVE Gather_break(_, _, _)
Gather_break(pools, failing, k) ==
    IF pools = <<>> THEN <<>>
    ELSE IF pools[1].name \in failing THEN <<>>
    ELSE similarity_search_with_score(pools[1].name, k * 2)
            \o Gather_break(Tail(pools), failing, k)

\* the loop of rag.py:84-89 over the pools; a search that raises adds nothing
RECURSIVE Gather(_, _, _)
Gather(pools, failing, k) ==
    IF pools = <<>> THEN <<>>
    ELSE LET vs == pools[1]
             got == IF vs.name \in failing THEN <<>>
                    ELSE similarity_search_with_score(vs.name, k * 2)
         IN got \o Gather(Tail(pools), failing, k)

\* list.sort(key=distance): stable, ascending
RECURSIVE InsertByDistance(_, _)
InsertByDistance(x, s) ==
    IF s = <<>> THEN <<x>>
    ELSE IF Lt(x.dist, s[Len(s)].dist)
         THEN InsertByDistance(x, SubSeq(s, 1, Len(s) - 1)) \o <<s[Len(s)]>>
         ELSE s \o <<x>>

RECURSIVE SortByDistance(_)
SortByDistance(s) ==
    IF s = <<>> THEN <<>>
    ELSE InsertByDistance(s[Len(s)], SortByDistance(SubSeq(s, 1, Len(s) - 1)))

\* 1.0 / (1.0 + s) for the distance s = n/d
score(dist) == <<dist[2], dist[2] + dist[1]>>

\* candidates[:k] for k >= 0
Take(s, k) == SubSeq(s, 1, Min(k, Len(s)))

\* a faulty variant: the candidates are cut to k before they are sorted
fuse_unsorted(candidates, k) ==
    LET top == Take(candidates, k)
    IN [docs |-> [i \in 1..Len(top) |-> top[i].doc],
        scores |-> [i \in 1..Len(top) |-> score(top[i].dist)]]

\* rag.py:91-98
fuse(candidates, k) ==
    IF candidates = <<>> THEN [docs |-> <<>>, scores |-> <<>>]
    ELSE LET top == Take(SortByDistance(candidates), k)
         IN [docs |-> [i \in 1..Len(top) |-> top[i].doc],
             scores |-> [i \in 1..Len(top) |-> score(top[i].dist)]]

(***************************** the graph ***********************************)
END == "END"
EntryPoint == "start"
\* a faulty variant: the entry node is wired straight to END
EdgesSkipRetrieve == [start |-> END, retrieve |-> END]
\* rag.py:160-162
Edges == [start |-> "retrieve", retrieve |-> END]

DefaultK == 6

(***************************** request bodies ******************************)
Q_test_wm == <<"W", "h", "a", "t", " ", "s", "e", "r", "v", "i", "c", "e", "s", " ", "d", "o", "e", "s", " ", "W", "a", "t", "t", "m", "o", "n", "k", " ", "p", "r", "o", "v", "i", "d", "e", "?">>
Q_test_gen == <<"T", "e", "l", "l", " ", "m", "e", " ", "a", " ", "j", "o", "k", "e", " ", "a", "b", "o", "u", "t", " ", "e", "l", "e", "c", "t", "r", "i", "c", "i", "t", "y", ".">>
Q_main == <<"W", "h", "a", "t", " ", "d", "o", "e", "s", " ", "N", "E", "C", " ", "s", "a", "y", " ", "a", "b", "o", "u", "t", " ", "g", "r", "o", "u", "n", "d", "i", "n", "g", "?">>

ApiKeys == Keys \cup {None}

(* A request: the HTTP method, what the body text parses to, and, for a    *)
(* JSON object, its apiKey, the number of messages, the shape of the last  *)
(* message and the query (the last message's content, or data["query"]).   *)
PostBody(a, n, l, q) ==
    [method |-> "POST", json |-> "object", apiKey |-> a, nmsgs |-> n, last |-> l, query |-> q]
OptionsBody == [PostBody(None, 0, "ok", StrQ(<<>>)) EXCEPT !.method = "OPTIONS"]
InvalidJsonBody == [PostBody(None, 0, "ok", StrQ(<<>>)) EXCEPT !.json = "invalid"]
NotObjectBody == [PostBody(None, 0, "ok", StrQ(<<>>)) EXCEPT !.json = "notobject"]

BodyQueries == {StrQ(<<>>), StrQ(Q_main), StrQ(Q_test_wm), StrQ(Q_test_gen), NonStrQ}

Bodies(msgCounts, queries) ==
    {OptionsBody, InvalidJsonBody, NotObjectBody}
    \cup {PostBody(a, n, "ok", q) : a \in ApiKeys, n \in msgCounts, q \in queries}
    \cup {PostBody(a, n, l, NoneQ) :
            a \in ApiKeys, n \in msgCounts \ {0}, l \in {"nocontent", "notdict"}}

(***************************** calls in progress ***************************)
NoResp == [status |-> -1, payload |-> "none"]

IdleReq ==
    [pc |-> "idle", entry |-> "none", seq |-> 0,
     body |-> OptionsBody, ownKey |-> None,
     \* the request context (the state dict of the graph)
     query |-> NoneQ, intent |-> "unset", docs |-> <<>>, scores |-> <<>>, mode |-> "unset",
     \* the graph runner
     node |-> "none", trace |-> <<>>, intents |-> <<>>,
     \* retrieve's frame
     hint |-> "unset", k |-> 0, loadIdx |-> 1, pools |-> <<>>,
     loaded |-> {}, searched |-> {}, failing |-> {},
     \* credentials obtained from get_key, in order
     keyReads |-> <<>>,
     \* summarize_history
     summary |-> "unset", modelCalled |-> FALSE, modelFailed |-> FALSE,
     raised |-> FALSE, resp |-> NoResp]

(***************************** control flow ********************************)
Append1(s, x) == s \o <<x>>

\* where an exception that leaves the graph or the parsing lands
Raise(rec) ==
    [rec EXCEPT !.raised = TRUE,
                !.pc = IF rec.entry = "handler" THEN "except"        \* rag.py:204
                       ELSE IF rec.entry = "main" THEN "crashed"     \* no handler in rag_cli.py
                       ELSE "raised",
                !.resp = IF rec.entry = "main"
                         THEN [status |-> 1, payload |-> "traceback"] ELSE @]

\* the graph runner moving to node `next` (END returns to the caller of invoke)
Goto(rec, next) ==
    IF next = END
    THEN [rec EXCEPT !.node = END,
                     !.pc = IF rec.entry \in {"handler", "main"} THEN "summarize" ELSE "done"]
    ELSE IF next = "retrieve"
    THEN \* _retrieve: intent = state.get("intent", "general"); retrieve(q, intent)
         [rec EXCEPT !.node = "retrieve", !.pc = "retrieve",
                     !.hint = IF rec.intent = "unset" THEN "general" ELSE rec.intent,
                     !.k = DefaultK, !.loadIdx = 1, !.pools = <<>>]
    ELSE [rec EXCEPT !.node = next, !.pc = "graph"]

(***************************** direct calls ********************************)
\* classify_intent(q), called on its own
ClassifyCall(r) ==
    /\ req[r].pc = "call" /\ req[r].entry = "classify"
    /\ LET res == classify_intent(req[r].query)
       IN req' = [req EXCEPT ![r] =
                    IF res = AttributeError THEN Raise(@)
                    ELSE [@ EXCEPT !.intent = res, !.pc = "done"]]
    /\ UNCHANGED <<KEY_OVERRIDE, GOOGLE_API_KEY, ENABLE_MEMORY_SUMMARY, fs, index, served>>

\* decide_mode(scores, intent), called on its own
DecideCall(r) ==
    /\ req[r].pc = "call" /\ req[r].entry = "decide"
    /\ req' = [req EXCEPT ![r] =
                 [@ EXCEPT !.mode = decide_mode(req[r].scores, req[r].intent), !.pc = "done"]]
    /\ UNCHANGED <<KEY_OVERRIDE, GOOGLE_API_KEY, ENABLE_MEMORY_SUMMARY, fs, index, served>>

(***************************** the graph nodes *****************************)
\* _start
StartNode(r) ==
    /\ req[r].pc = "graph" /\ req[r].node = "start"
    /\ LET res == classify_intent(req[r].query)
       IN req' = [req EXCEPT ![r] =
                    IF res = AttributeError THEN Raise(@)
                    ELSE Goto([@ EXCEPT !.intent = res,
                                        !.trace = Append1(@, "start"),
                                        !.intents = Append1(@, res)],
                              Edges["start"])]
    /\ UNCHANGED <<KEY_OVERRIDE, GOOGLE_API_KEY, ENABLE_MEMORY_SUMMARY, fs, index, served>>

\* retrieve, one load_vs call (rag.py:67-77)
RetrieveLoad(r) ==
    /\ req[r].pc = "retrieve"
    /\ req[r].loadIdx <= Len(Selected(req[r].hint))
    /\ LET name == Selected(req[r].hint)[req[r].loadIdx]
           exists == fs[name] # "missing"
           key == get_key
           vs == load_vs(name, key)
       IN req' = [req EXCEPT ![r] =
                    [@ EXCEPT !.loadIdx = @ + 1,
                              !.loaded = @ \cup {name},
                              !.keyReads = IF exists THEN Append1(@, key) ELSE @,
                              !.pools = IF vs # NoVs THEN Append1(@, vs) ELSE @]]
    /\ UNCHANGED <<KEY_OVERRIDE, GOOGLE_API_KEY, ENABLE_MEMORY_SUMMARY, fs, index, served>>

PoolNames(pools) == {pools[i].name : i \in 1..Len(pools)}

(* The searches that may raise: one without an embeddings object always    *)
(* does (embedding the query calls None); any other may (the embedding     *)
(* backend or the index can fail).                                         *)
MayFail(pools) ==
    {f \in SUBSET PoolNames(pools) :
        \A i \in 1..Len(pools) : pools[i].embeddings = None => pools[i].name \in f}

\* retrieve from rag.py:79 on, and the rest of _retrieve when the graph called it
RetrieveSearch(r) ==
    /\ req[r].pc = "retrieve"
    /\ req[r].loadIdx > Len(Selected(req[r].hint))
    /\ \E failing \in MayFail(req[r].pools) :
          LET rec == req[r]
              res == IF rec.pools = <<>> THEN [docs |-> <<>>, scores |-> <<>>]
                     ELSE fuse(Gather(rec.pools, failing, rec.k), rec.k)
              out == [rec EXCEPT !.docs = res.docs, !.scores = res.scores,
                                 !.searched = PoolNames(rec.pools),
                                 !.failing = failing]
          IN req' = [req EXCEPT ![r] =
                       IF rec.entry = "retrieve" THEN [out EXCEPT !.pc = "done"]
                       ELSE Goto([out EXCEPT !.mode = decide_mode(res.scores, rec.hint),
                                             !.trace = Append1(@, "retrieve"),
                                             !.intents = Append1(@, rec.intent)],
                                 Edges["retrieve"])]
    /\ UNCHANGED <<KEY_OVERRIDE, GOOGLE_API_KEY, ENABLE_MEMORY_SUMMARY, fs, index, served>>

(***************************** the summarizer ******************************)
ThrottleEvery == 6

\* a faulty variant: the throttle is dropped
summarize_history_unthrottled(nmsgs, key, ok) ==
    IF ~ENABLE_MEMORY_SUMMARY THEN [summary |-> "", called |-> FALSE, failed |-> FALSE]
    ELSE IF nmsgs = 0 \/ key = None THEN [summary |-> "", called |-> FALSE, failed |-> FALSE]
    ELSE IF ok THEN [summary |-> "content", called |-> TRUE, failed |-> FALSE]
    ELSE [summary |-> "", called |-> TRUE, failed |-> TRUE]

(* summarize_history(messages) for len(messages) = nmsgs, the key get_key  *)
(* returned, and whether model.invoke returns (ok) or raises.              *)
summarize_history(nmsgs, key, ok) ==
    IF ~ENABLE_MEMORY_SUMMARY THEN [summary |-> "", called |-> FALSE, failed |-> FALSE]
    ELSE IF nmsgs = 0 \/ key = None THEN [summary |-> "", called |-> FALSE, failed |-> FALSE]
    ELSE IF nmsgs % ThrottleEvery # 0 THEN [summary |-> "", called |-> FALSE, failed |-> FALSE]
    ELSE IF ok THEN [summary |-> "content", called |-> TRUE, failed |-> FALSE]
    ELSE [summary |-> "", called |-> TRUE, failed |-> TRUE]

\* rag.py:182-203 and rag_cli.py:19-40: summarize, shape the response, send it
Summarize(r) ==
    /\ req[r].pc = "summarize"
    /\ \E ok \in BOOLEAN :
          LET rec == req[r]
              key == get_key
              s == summarize_history(rec.body.nmsgs, key, ok)
          IN req' = [req EXCEPT ![r] =
                       [@ EXCEPT !.summary = s.summary,
                                 !.modelCalled = s.called,
                                 !.modelFailed = s.failed,
                                 !.keyReads = IF ENABLE_MEMORY_SUMMARY THEN Append1(@, key) ELSE @,
                                 !.resp = IF rec.entry = "handler"
                                          THEN [status |-> 200, payload |-> "success"]
                                          ELSE [status |-> 0, payload |-> "success"],
                                 !.pc = IF rec.entry = "handler" THEN "finally" ELSE "done"]]
    /\ UNCHANGED <<KEY_OVERRIDE, GOOGLE_API_KEY, ENABLE_MEMORY_SUMMARY, fs, index, served>>

(***************************** the boundaries ******************************)
\* what lines 175-179 of rag.py (13-16 of rag_cli.py) raise on
ParseRaises(b) ==
    \/ b.json = "invalid"                        \* json.loads
    \/ b.json = "notobject"                      \* data.get on a list, number or null
    \/ b.nmsgs > 0 /\ b.last = "notdict"         \* messages[-1].get

\* a faulty variant: the override is cleared after the response is built instead of
\* in a finally clause, so a path through the except clause keeps it
HandlerFinally_keep(r) ==
    /\ req[r].pc = "finally"
    /\ KEY_OVERRIDE' = IF req[r].raised THEN KEY_OVERRIDE ELSE None
    /\ req' = [req EXCEPT ![r] = [@ EXCEPT !.pc = "done"]]
    /\ UNCHANGED <<GOOGLE_API_KEY, ENABLE_MEMORY_SUMMARY, fs, index, served>>

\* handler, rag.py:172-181: up to the call of _graph.invoke
HandlerBegin(r, bodies) ==
    /\ req[r].pc = "idle"
    /\ served < MaxRequests
    /\ served' = served + 1
    /\ \E b \in bodies :
          LET base == [IdleReq EXCEPT !.entry = "handler", !.seq = served + 1, !.body = b]
          IN IF b.method = "OPTIONS"
             THEN /\ req' = [req EXCEPT ![r] =
                               [base EXCEPT !.resp = [status |-> 200, payload |-> "empty"],
                                            !.pc = "finally"]]
                  /\ UNCHANGED KEY_OVERRIDE
             ELSE IF b.json # "object"
             THEN /\ req' = [req EXCEPT ![r] = Raise(base)]
                  /\ UNCHANGED KEY_OVERRIDE
             ELSE /\ KEY_OVERRIDE' = b.apiKey            \* data.get("apiKey") or None
                  /\ req' = [req EXCEPT ![r] =
                               IF ParseRaises(b) THEN Raise([base EXCEPT !.ownKey = b.apiKey])
                               ELSE Goto([base EXCEPT !.ownKey = b.apiKey, !.query = b.query],
                                         EntryPoint)]
    /\ UNCHANGED <<GOOGLE_API_KEY, ENABLE_MEMORY_SUMMARY, fs, index>>

\* rag.py:204-205
HandlerExcept(r) ==
    /\ req[r].pc = "except"
    /\ req' = [req EXCEPT ![r] =
                 [@ EXCEPT !.resp = [status |-> 500, payload |-> "error"], !.pc = "finally"]]
    /\ UNCHANGED <<KEY_OVERRIDE, GOOGLE_API_KEY, ENABLE_MEMORY_SUMMARY, fs, index, served>>

\* rag.py:206-210, then the return
HandlerFinally(r) ==
    /\ req[r].pc = "finally"
    /\ KEY_OVERRIDE' = None
    /\ req' = [req EXCEPT ![r] = [@ EXCEPT !.pc = "done"]]
    /\ UNCHANGED <<GOOGLE_API_KEY, ENABLE_MEMORY_SUMMARY, fs, index, served>>

\* the server takes the next request on the same thread
NextRequest(r) ==
    /\ req[r].pc = "done" /\ req[r].entry = "handler"
    /\ served < MaxRequests
    /\ req' = [req EXCEPT ![r] = IdleReq]
    /\ UNCHANGED <<KEY_OVERRIDE, GOOGLE_API_KEY, ENABLE_MEMORY_SUMMARY, fs, index, served>>

\* main of rag_cli.py, lines 13-18: one run of the process on its standard input
MainBegin(r, bodies) ==
    /\ req[r].pc = "idle"
    /\ served = 0
    /\ served' = 1
    /\ \E b \in {x \in bodies : x.method = "POST"} :
          LET base == [IdleReq EXCEPT !.entry = "main", !.seq = 1, !.body = b]
          IN req' = [req EXCEPT ![r] =
                       IF ParseRaises(b) THEN Raise(base)
                       ELSE Goto([base EXCEPT !.query = b.query], EntryPoint)]
    /\ UNCHANGED <<KEY_OVERRIDE, GOOGLE_API_KEY, ENABLE_MEMORY_SUMMARY, fs, index>>

(***************************** initial states ******************************)
EnvKey == "envkey"

AllIdle == [t \in Threads |-> IdleReq]

\* the ranked (ascending) distance lists of at most n neighbours
SortedSeqs(n) ==
    {s \in UNION {[1..m -> Dists] : m \in 0..n} :
        \A i \in 1..Len(s) : \A j \in i..Len(s) : Le(s[i], s[j])}

\* a store in which nec holds a near match and wattmonk a far one
SampleIndex == [c \in Collections |-> IF c = "nec" THEN <<<<1, 10>>>> ELSE <<<<3, 1>>>>]

InitProcess ==
    /\ KEY_OVERRIDE = None
    /\ GOOGLE_API_KEY \in {None, EnvKey}
    /\ ENABLE_MEMORY_SUMMARY \in BOOLEAN
    /\ served = 0

\* a process serving requests one at a time (or one run of the CLI)
Init ==
    /\ InitProcess
    /\ fs \in [Collections -> FsStatus]
    /\ index = SampleIndex
    /\ req = AllIdle

SeqBodies == Bodies(0..MaxMsgs, BodyQueries)

Next ==
    \/ HandlerBegin(1, SeqBodies)
    \/ MainBegin(1, SeqBodies)
    \/ StartNode(1)
    \/ RetrieveLoad(1)
    \/ RetrieveSearch(1)
    \/ Summarize(1)
    \/ HandlerExcept(1)
    \/ HandlerFinally(1)
    \/ NextRequest(1)

Spec == Init /\ [][Next]_vars

\* handler invocations on several threads of one process
ConcBodies ==
    {OptionsBody, InvalidJsonBody}
    \cup {PostBody(a, ThrottleEvery, "ok", q) :
            a \in ApiKeys, q \in {StrQ(Q_main), StrQ(Q_test_gen)}}

InitConcurrent ==
    /\ InitProcess
    /\ fs \in {[c \in Collections |-> "ok"], [c \in Collections |-> "missing"]}
    /\ index = SampleIndex
    /\ req = AllIdle

NextConcurrent ==
    \E r \in Threads :
        \/ HandlerBegin(r, ConcBodies)
        \/ StartNode(r)
        \/ RetrieveLoad(r)
        \/ RetrieveSearch(r)
        \/ Summarize(r)
        \/ HandlerExcept(r)
        \/ HandlerFinally(r)

SpecConcurrent == InitConcurrent /\ [][NextConcurrent]_vars

\* direct calls retrieve(query, hint, k)
Hints == {"nec", "wattmonk", "general"}

InitRetrieve ==
    /\ KEY_OVERRIDE = None
    /\ GOOGLE_API_KEY \in {None, EnvKey}
    /\ ENABLE_MEMORY_SUMMARY = FALSE
    /\ served = 0
    /\ fs \in [Collections -> FsStatus]
    /\ index \in [Collections -> SortedSeqs(MaxHits)]
    /\ \E h \in Hints, k \in 0..MaxK :
          req = [AllIdle EXCEPT ![1] =
                   [IdleReq EXCEPT !.entry = "retrieve", !.pc = "retrieve",
                                   !.query = StrQ(Q_main), !.hint = h, !.k = k]]

NextRetrieve == RetrieveLoad(1) \/ RetrieveSearch(1)

SpecRetrieve == InitRetrieve /\ [][NextRetrieve]_vars

\* _graph.invoke({"query": q}), as tools/test_rag.py calls it
Q_test_nec == <<"W", "h", "a", "t", " ", "i", "s", " ", "t", "h", "e", " ", "N", "E", "C", " ", "r", "e", "q", "u", "i", "r", "e", "m", "e", "n", "t", " ", "f", "o", "r", " ", "G", "F", "C", "I", " ", "o", "u", "t", "l", "e", "t", "s", " ", "i", "n", " ", "k", "i", "t", "c", "h", "e", "n", "s", "?">>

GraphQueries == {StrQ(Q_test_nec), StrQ(Q_test_wm), StrQ(Q_test_gen), StrQ(<<>>), NoneQ, NonStrQ}

InitGraph ==
    /\ InitProcess
    /\ fs \in [Collections -> FsStatus]
    /\ index \in [Collections -> SortedSeqs(1)]
    /\ \E q \in GraphQueries :
          req = [AllIdle EXCEPT ![1] =
                   Goto([IdleReq EXCEPT !.entry = "invoke", !.query = q], EntryPoint)]

NextGraph == StartNode(1) \/ RetrieveLoad(1) \/ RetrieveSearch(1)

SpecGraph == InitGraph /\ [][NextGraph]_vars

\* direct calls classify_intent(q)
P_what == <<"W", "h", "a", "t", " ", "i", "s", " ", "t", "h", "e", " ">>
P_paren == <<"(">>
S_req == <<" ", "r", "e", "q", "u", "i", "r", "e", "m", "e", "n", "t">>
S_q == <<"?">>
S_pricing == <<" ", "p", "r", "i", "c", "i", "n", "g">>
W_NEC == <<"N", "E", "C">>
W_nec == <<"n", "e", "c">>
W_Nec == <<"N", "e", "c">>
W_NatCode == <<"N", "a", "t", "i", "o", "n", "a", "l", " ", "E", "l", "e", "c", "t", "r", "i", "c", "a", "l", " ", "C", "o", "d", "e">>
W_NFPA == <<"N", "F", "P", "A", " ", "7", "0">>
W_nfpa == <<"n", "f", "p", "a", " ", "7", "0">>
W_Article == <<"A", "r", "t", "i", "c", "l", "e">>
W_ARTICLE == <<"A", "R", "T", "I", "C", "L", "E", " ", "2", "5", "0">>
W_Wattmonk == <<"W", "a", "t", "t", "m", "o", "n", "k">>
W_SLA == <<"S", "L", "A">>
W_joke == <<"a", " ", "j", "o", "k", "e">>
W_necessary == <<"n", "e", "c", "e", "s", "s", "a", "r", "y">>

Prefixes == {<<>>, P_what, P_paren}
Words == {W_NEC, W_nec, W_Nec, W_NatCode, W_NFPA, W_nfpa, W_Article, W_ARTICLE,
          W_Wattmonk, W_SLA, W_joke, W_necessary, <<>>}
Suffixes == {<<>>, S_req, S_q, S_pricing}

ClassifyQueries ==
    {StrQ(p \o w \o x) : p \in Prefixes, w \in Words, x \in Suffixes}
    \cup {StrQ(Q_test_nec), StrQ(Q_test_wm), StrQ(Q_test_gen), StrQ(Q_main), NoneQ, NonStrQ}

InitDirect ==
    /\ KEY_OVERRIDE = None
    /\ GOOGLE_API_KEY = None
    /\ ENABLE_MEMORY_SUMMARY = FALSE
    /\ served = 0
    /\ fs = [c \in Collections |-> "missing"]
    /\ index = [c \in Collections |-> <<>>]

InitClassify ==
    /\ InitDirect
    /\ \E q \in ClassifyQueries :
          req = [AllIdle EXCEPT ![1] =
                   [IdleReq EXCEPT !.entry = "classify", !.pc = "call", !.query = q]]

NextClassify == ClassifyCall(1)

SpecClassify == InitClassify /\ [][NextClassify]_vars

\* direct calls decide_mode(scores, intent)
ScoreValues == {<<0, 1>>, <<1, 5>>, <<1, 4>>, <<3, 10>>, <<7, 10>>, <<71, 100>>, <<1, 1>>}
ScoreLists == UNION {[1..m -> ScoreValues] : m \in 0..MaxScores}

InitDecide ==
    /\ InitDirect
    /\ \E sc \in ScoreLists, i \in Hints :
          req = [AllIdle EXCEPT ![1] =
                   [IdleReq EXCEPT !.entry = "decide", !.pc = "call",
                                   !.scores = sc, !.intent = i]]

NextDecide == DecideCall(1)

SpecDecide == InitDecide /\ [][NextDecide]_vars

(***************************** claims ***************************************)
ApplicableThreshold(intent) ==
    IF intent \in {"nec", "wattmonk"} THEN TopicalThreshold ELSE GeneralThreshold

Exceeded(scores, t) == \E i \in 1..Len(scores) : Gt(scores[i], t)

\* no score above t, and one equal to it
AtBoundary(scores, t) ==
    /\ \A i \in 1..Len(scores) : Le(scores[i], t)
    /\ \E i \in 1..Len(scores) : Eq(scores[i], t)

DecideDone(r) == req[r].entry = "decide" /\ req[r].pc = "done"

(* C1: for every non-empty score list and every intent, decide_mode        *)
(* returns "rag" exactly when some score (hence the maximum) is strictly   *)
(* above the applicable threshold, 0.25 for nec and wattmonk and 0.7 for   *)
(* general; a maximum equal to the threshold gives "general".              *)
C1_DecideMode ==
    \A r \in Threads :
        DecideDone(r) /\ req[r].scores # <<>> =>
            LET t == ApplicableThreshold(req[r].intent)
            IN /\ req[r].mode = "rag" <=> Exceeded(req[r].scores, t)
               /\ req[r].mode \in {"rag", "general"}
               /\ AtBoundary(req[r].scores, t) => req[r].mode = "general"

\* a call whose maximum is exactly the threshold, for a topical and for the
\* general intent, has returned "general"
C1_Witness ==
    \E r \in Threads :
        /\ DecideDone(r)
        /\ Len(req[r].scores) = 2
        /\ AtBoundary(req[r].scores, ApplicableThreshold(req[r].intent))
        /\ req[r].intent = "general"
        /\ req[r].mode = "general"

IsAlnum(c) == c \in Range(UpperChars) \cup Range(LowerChars) \cup Range(DigitChars)

T_nec == <<"n", "e", "c">>
T_article == <<"a", "r", "t", "i", "c", "l", "e">>
RegulatoryKeywords == {T_nec, KW_national_electrical_code, KW_nfpa_70, T_article}

\* k occurs in s as a word of its own: not inside a longer word or number
OccursAsWord(s, k) ==
    \E i \in 0..(Len(s) - Len(k)) :
        /\ SubSeq(s, i + 1, i + Len(k)) = k
        /\ i = 0 \/ ~IsAlnum(s[i])
        /\ i + Len(k) = Len(s) \/ ~IsAlnum(s[i + Len(k) + 1])

HasRegulatoryKeyword(q) ==
    /\ q.kind = "str"
    /\ \E k \in RegulatoryKeywords : OccursAsWord(lower(q.chars), k)

(* C2: every query that contains a regulatory keyword (NEC, national       *)
(* electrical code, NFPA 70, article), in any letter case, at the start,   *)
(* in the middle or at the end of the query, followed by punctuation or    *)
(* not, with or without an organization keyword beside it, is classified   *)
(* "nec".                                                                  *)
C2_RegulatoryKeywordIsNec ==
    \A r \in Threads :
        /\ req[r].entry = "classify"
        /\ req[r].pc = "done"
        /\ HasRegulatoryKeyword(req[r].query)
        => req[r].intent = "nec"

RetrieveCall(r) == req[r].entry = "retrieve"
RetrieveDone(r) == RetrieveCall(r) /\ req[r].pc = "done"

(* C3: a call retrieve(query, hint, k) returns at most k documents, as     *)
(* many scores as documents, and scores that never increase along the      *)
(* ranking.                                                                *)
C3_TopKNonIncreasing ==
    \A r \in Threads :
        RetrieveDone(r) =>
            /\ Len(req[r].docs) <= req[r].k
            /\ Len(req[r].scores) = Len(req[r].docs)
            /\ \A i \in 1..Len(req[r].scores) : \A j \in i..Len(req[r].scores) :
                  ~Lt(req[r].scores[i], req[r].scores[j])

\* both collections answered with more than k candidates between them, the
\* nearer ones in the collection searched second, and k = 2 were returned
C3_Witness ==
    \E r \in Threads :
        /\ RetrieveDone(r)
        /\ req[r].k = 2 /\ Len(req[r].docs) = 2
        /\ req[r].searched = Collections /\ req[r].failing = {}
        /\ index["nec"] # <<>> /\ index["wattmonk"] # <<>>
        /\ Len(index["nec"]) + Len(index["wattmonk"]) > 2
        /\ Lt(index["wattmonk"][1], index["nec"][1])
        /\ Gt(req[r].scores[1], req[r].scores[2])

\* the collections an intent selects
IntentCollections(h) ==
    IF h = "nec" THEN {"nec"} ELSE IF h = "wattmonk" THEN {"wattmonk"} ELSE Collections

(* a selected collection that is present, loads, has a credential for its  *)
(* embeddings and whose search returned                                    *)
Usable(c, rec) ==
    /\ c \in IntentCollections(rec.hint)
    /\ fs[c] = "ok"
    /\ get_key # None
    /\ c \notin rec.failing

AnswerOf(c, rec) ==
    IF Usable(c, rec) THEN similarity_search_with_score(c, 2 * rec.k) ELSE <<>>

(* C4: a selected collection that is missing, corrupt, without a           *)
(* credential or whose search raises contributes no candidate and never    *)
(* makes retrieve raise: the result is the fusion of the answers of the    *)
(* other selected collections, and when none is left the documents and     *)
(* the scores are empty and decide_mode gives "general" for every intent.  *)
C4_FailuresContributeNothing ==
    \A r \in Threads :
        RetrieveCall(r) =>
            /\ ~req[r].raised /\ req[r].pc # "raised"
            /\ req[r].pc = "done" =>
                  LET rec == req[r]
                      want == fuse(AnswerOf("nec", rec) \o AnswerOf("wattmonk", rec), rec.k)
                  IN /\ rec.docs = want.docs /\ rec.scores = want.scores
                     /\ \A i \in 1..Len(rec.docs) : Usable(rec.docs[i].coll, rec)
                     /\ (\A c \in Collections : ~Usable(c, rec)) =>
                           /\ rec.docs = <<>> /\ rec.scores = <<>>
                           /\ \A h \in Hints : decide_mode(rec.scores, h) = "general"

\* both collections loaded, the search of the first raised, and the
\* documents of the second were returned
C4_Witness ==
    \E r \in Threads :
        /\ RetrieveDone(r)
        /\ req[r].hint = "general" /\ req[r].k > 0
        /\ req[r].searched = Collections
        /\ req[r].failing = {"nec"}
        /\ index["nec"] # <<>>
        /\ req[r].docs # <<>>
        /\ \A i \in 1..Len(req[r].docs) : req[r].docs[i].coll = "wattmonk"

(* C5: retrieve loads exactly the collections the intent selects (nec:     *)
(* nec; wattmonk: wattmonk; general: both), searches those of them that    *)
(* load, and returns no document of any other collection.                  *)
C5_OnlySelectedCollections ==
    \A r \in Threads :
        RetrieveCall(r) =>
            /\ req[r].loaded \subseteq IntentCollections(req[r].hint)
            /\ req[r].searched \subseteq req[r].loaded
            /\ \A i \in 1..Len(req[r].docs) :
                  req[r].docs[i].coll \in IntentCollections(req[r].hint)
            /\ req[r].pc = "done" =>
                  /\ req[r].loaded = IntentCollections(req[r].hint)
                  /\ req[r].searched = {c \in req[r].loaded : fs[c] = "ok"}

\* intent nec, while the wattmonk collection is loadable and holds a nearer
\* match than nec: only nec was searched and returned
C5_Witness ==
    \E r \in Threads :
        /\ RetrieveDone(r)
        /\ req[r].hint = "nec"
        /\ fs["wattmonk"] = "ok" /\ get_key # None
        /\ index["wattmonk"] # <<>> /\ index["nec"] # <<>>
        /\ Lt(index["wattmonk"][1], index["nec"][1])
        /\ req[r].searched = {"nec"}
        /\ req[r].docs # <<>>

StageOrder == <<"start", "retrieve">>

IsPrefix(s, t) == Len(s) <= Len(t) /\ SubSeq(t, 1, Len(s)) = s

(* C9: an invocation of the graph runs start, then retrieve, then ends,    *)
(* each stage once and in that order: the stages run so far are always a   *)
(* prefix of <<start, retrieve>>; the intent is in the context before      *)
(* retrieve loads anything and is the same after every stage; and at the   *)
(* end the mode is decide_mode of the scores and the intent of the         *)
(* context.                                                                *)
C9_FixedStageOrder ==
    \A r \in Threads :
        req[r].entry = "invoke" =>
            /\ IsPrefix(req[r].trace, StageOrder)
            /\ req[r].pc = "retrieve" =>
                  req[r].trace = <<"start">> /\ req[r].intent # "unset"
            /\ req[r].loaded # {} => req[r].intent # "unset"
            /\ \A i \in 1..Len(req[r].intents) : req[r].intents[i] = req[r].intent
            /\ req[r].pc = "done" =>
                  /\ req[r].node = END
                  /\ req[r].trace = StageOrder
                  /\ req[r].intents = <<req[r].intent, req[r].intent>>
                  /\ req[r].intent = classify_intent(req[r].query)
                  /\ req[r].mode = decide_mode(req[r].scores, req[r].intent)

\* an invocation for the test's NEC question ended in mode "rag" with a document
C9_Witness ==
    \E r \in Threads :
        /\ req[r].entry = "invoke" /\ req[r].pc = "done"
        /\ req[r].query = StrQ(Q_test_nec)
        /\ req[r].intent = "nec"
        /\ req[r].docs # <<>>
        /\ req[r].mode = "rag"

HandlerReturned(r) == req[r].entry = "handler" /\ req[r].pc = "done"

(* C6: when handler has returned, by whichever path (the OPTIONS           *)
(* preflight, a response, a body that does not parse, an exception in the  *)
(* pipeline), KEY_OVERRIDE is None and get_key gives the environment's     *)
(* credential.                                                             *)
C6_OverrideCleared ==
    \A r \in Threads :
        HandlerReturned(r) =>
            /\ KEY_OVERRIDE = None
            /\ get_key = GOOGLE_API_KEY

\* a request that set an override and whose pipeline raised has returned 500
C6_Witness ==
    \E r \in Threads :
        /\ HandlerReturned(r)
        /\ req[r].ownKey # None
        /\ req[r].body.query = NonStrQ
        /\ req[r].raised
        /\ req[r].resp = [status |-> 500, payload |-> "error"]

BoundaryEnded(r) ==
    /\ req[r].entry \in {"handler", "main"}
    /\ req[r].pc \in {"done", "crashed"}

\* invalid JSON, a body that is not an object, a last message that is not one
Malformed(b) ==
    b.method = "POST" /\ (b.json # "object" \/ (b.nmsgs > 0 /\ b.last = "notdict"))

(* C7: at both boundaries (handler and the CLI's main), a malformed input  *)
(* or a failure inside ends in the payload {error: ...} with a status      *)
(* that is not the success status, never in an unhandled exception and     *)
(* never in a success-shaped payload.                                      *)
C7_ErrorPayloadAtEveryBoundary ==
    \A r \in Threads :
        BoundaryEnded(r) /\ (Malformed(req[r].body) \/ req[r].raised) =>
            /\ req[r].pc # "crashed"
            /\ req[r].resp.payload = "error"
            /\ req[r].resp.status \notin {0, 200}

Summarized(r) == req[r].summary # "unset"

\* the credential the call would get: the request's override, else the environment's
OwnCredential(r) == IF req[r].ownKey # None THEN req[r].ownKey ELSE GOOGLE_API_KEY

(* C8 as stated: the model is called only when the flag is on, a           *)
(* credential is available, the history is not empty and the request's     *)
(* sequence number is divisible by 6; otherwise, and when the call fails,  *)
(* the result is "" and nothing is raised.                                 *)
C8_ThrottledByRequestNumber ==
    \A r \in Threads :
        Summarized(r) =>
            /\ req[r].modelCalled =>
                  /\ ENABLE_MEMORY_SUMMARY
                  /\ OwnCredential(r) # None
                  /\ req[r].body.nmsgs > 0
                  /\ req[r].seq % 6 = 0
            /\ ~req[r].modelCalled \/ req[r].modelFailed => req[r].summary = ""
            /\ ~req[r].raised

(* C8 as amended: the model is called only when the flag is on, a          *)
(* credential is available, the history is not empty and the number of     *)
(* messages in the history is divisible by 6; otherwise, and when the      *)
(* call fails, the result is "" and nothing is raised.                     *)
C8_ThrottledByMessageCount ==
    \A r \in Threads :
        Summarized(r) =>
            /\ req[r].modelCalled =>
                  /\ ENABLE_MEMORY_SUMMARY
                  /\ OwnCredential(r) # None
                  /\ req[r].body.nmsgs > 0
                  /\ req[r].body.nmsgs % 6 = 0
            /\ ~req[r].modelCalled \/ req[r].modelFailed => req[r].summary = ""
            /\ ~req[r].raised

\* the first request of a process carried six messages: the model was called,
\* and failed, and the summary is empty
C8_Witness ==
    \E r \in Threads :
        /\ Summarized(r)
        /\ req[r].seq = 1
        /\ req[r].body.nmsgs = 6
        /\ req[r].modelCalled /\ req[r].modelFailed
        /\ req[r].summary = ""

(* C10: when handler invocations interleave, every credential a request    *)
(* obtains from get_key (for a collection load, for the summarizer) is     *)
(* its own override, or the environment's when it supplied none.           *)
C10_OwnCredentialOnly ==
    \A r \in Threads :
        req[r].entry = "handler" =>
            \A i \in 1..Len(req[r].keyReads) : req[r].keyReads[i] = OwnCredential(r)

====
